---- MODULE Spec2Model ----
(***************************************************************************)
(* A model of vu's Surface (surface.go): the height-field store (Pts,     *)
(* Resize), and Update, which rebuilds the vertex, normal, texture and     *)
(* face buffers of a land patch and hands them to a Model's mesh.          *)
(*                                                                         *)
(* Go slices are modelled with their length AND their capacity: a slice is *)
(* [arr |-> backing array indexed from 0, len |-> visible length], its     *)
(* capacity is the size of arr.  A run-time panic is modelled as a result  *)
(* of the call (the field "panic"), with the writes made before it kept.   *)
(*                                                                         *)
(* float32 values are modelled in fixed point: the integer v stands for    *)
(* the number v / Unit, and products, quotients and square roots round to  *)
(* the nearest representable value.                                        *)
(***************************************************************************)
EXTENDS Integers, Sequences, FiniteSets, TLC

\* ------------------------------------------------------------------ bounds
MaxDim == 3     \* largest grid width and height constructed
MaxSpread == 3  \* largest tile-repeat period constructed
MaxOff == 2     \* largest magnitude of a patch offset
MaxOps == 3     \* longest sequence of calls explored on one surface
MaxSlope == 2   \* steepest height field, in heights per grid step
CapWidth == 130   \* with CapHeight, the smallest grid explored whose
CapHeight == 129  \* 4*129*128 vertices do not fit 16 bits

\* ------------------------------------------------------------- arithmetic
\* The fixed-point resolution: 1/1000 is the border of surface.go:146, and the
\* factor 6 keeps the tile fractions k/spread exact for spread = 1, 2, 3.
Unit == 6 * 1000

Abs(a) == IF a < 0 THEN -a ELSE a
Sign(a) == IF a < 0 THEN -1 ELSE 1

\* Go's integer division truncates toward zero, and % takes the sign of the
\* dividend: (-1) % 2 = -1.
GoQuo(a, b) == Sign(a) * Sign(b) * (Abs(a) \div Abs(b))
GoRem(a, b) == a - b * GoQuo(a, b)

\* float32 arithmetic, rounded to the nearest fixed-point value.
Round(a, b) == Sign(a) * Sign(b) * ((2 * Abs(a) + Abs(b)) \div (2 * Abs(b)))
FMul(a, b) == Round(a * b, Unit)
FDiv(a, b) == Round(a * Unit, b)
float32(i) == i * Unit

RECURSIVE SqrtLoop(_, _, _)
SqrtLoop(v, lo, hi) ==
    IF lo >= hi THEN lo
    ELSE LET mid == (lo + hi + 1) \div 2
         IN IF mid * mid <= v THEN SqrtLoop(v, mid, hi) ELSE SqrtLoop(v, lo, mid - 1)
\* math.Sqrt on a fixed-point value: sqrt(v/Unit) = sqrt(v*Unit)/Unit.
Sqrt(v) == SqrtLoop(v * Unit, 0, 46340)

\* uint16 arithmetic wraps modulo 2^16.
uint16(i) == i % 65536

\* ----------------------------------------------------------------- slices
\* make([]T, n): n zero values, length n, capacity n.
MakeSlice(n, zero) == [arr |-> [i \in 0 .. n - 1 |-> zero], len |-> n]
Cap(sl) == Cardinality(DOMAIN sl.arr)
\* sl[:n] panics unless 0 <= n <= cap(sl); it may re-extend a slice that was
\* cut shorter before, and it never changes the backing array.
CanReslice(sl, n) == 0 <= n /\ n <= Cap(sl)
Reslice(sl, n) == [sl EXCEPT !.len = n]
\* sl[i] panics unless 0 <= i < len(sl).
InRange(sl, i) == 0 <= i /\ i < sl.len

\* ------------------------------------------------------------------ types
SurfacePointZero == [Height |-> 0, Tindex |-> 0, Blend |-> 0]
xyzZero == [x |-> 0, y |-> 0, z |-> 0]

NoSurface == [none |-> TRUE]
\* A Model's mesh before any data is delivered to it.
EmptyModel ==
    [vb |-> [span |-> 0, data |-> <<>>], nb |-> [span |-> 0, data |-> <<>>],
     tb |-> [span |-> 0, data |-> <<>>], fb |-> <<>>, loads |-> 0]
NoCall == [op |-> "none", args |-> <<>>, panic |-> FALSE, w |-> 0, h |-> 0]

VARIABLES
    s,     \* the surface (a record of its fields), or NoSurface
    m,     \* the Model's mesh data: what was last delivered to it
    last,  \* the last call made: its name, arguments, whether it panicked,
           \* and the grid's width and height before it
    nops   \* the number of calls made on the surface

vars == <<s, m, last, nops>>

\* ------------------------------------------------------------- newSurface
\* make panics on a negative length; the inner make runs only if sx >= 1.
newSurfacePanics(sx, sy) == sx < 0 \/ (sx >= 1 /\ sy < 0)

newSurface(sx, sy, spread, textureRatio, scale) ==
    [tratio |-> textureRatio,
     spread |-> spread,
     scale |-> scale,
     pts |-> MakeSlice(sx, MakeSlice(sy, SurfacePointZero)),
     vb |-> MakeSlice(0, 0),
     nb |-> MakeSlice(0, 0),
     tb |-> MakeSlice(0, 0),
     fb |-> MakeSlice(0, 0),
     nms |-> MakeSlice(sx, MakeSlice(sy, xyzZero))]

\* -------------------------------------------------------------------- Pts
\* What a caller sees through Pts(): len(pts) columns, each of its own length.
Pts(sf) ==
    [x \in 0 .. sf.pts.len - 1 |->
        [y \in 0 .. sf.pts.arr[x].len - 1 |-> sf.pts.arr[x].arr[y]]]
Width(sf) == sf.pts.len
\* The height of the grid: the length every visible column has, or -1 when the
\* columns differ; of a grid with no column, 0.
Height(sf) ==
    IF sf.pts.len = 0 THEN 0
    ELSE IF \A x \in 0 .. sf.pts.len - 1 : sf.pts.arr[x].len = sf.pts.arr[0].len
         THEN sf.pts.arr[0].len
         ELSE -1

\* The terrain generator's write Pts()[x][y] = p.
SetPt(sf, x, y, p) == [sf EXCEPT !.pts.arr[x].arr[y] = p]

\* ----------------------------------------------------------------- Resize
\* The loop of surface.go:88-90 reslices the columns in order and stops at the
\* first one that cannot be resliced: ResizeSteps is the number of columns it
\* reslices, and ResizeLoop the slice it leaves.
ResizeSteps(pts, h) ==
    LET bad == {x \in 0 .. pts.len - 1 : ~CanReslice(pts.arr[x], h)}
    IN IF bad = {} THEN pts.len
       ELSE CHOOSE x \in bad : \A z \in bad : x <= z

ResizeLoopSkipsLast(pts, h, n) ==
    [pts |-> [pts EXCEPT !.arr =
                [x \in DOMAIN pts.arr |->
                    IF x < n - 1 THEN Reslice(pts.arr[x], h) ELSE pts.arr[x]]],
     panic |-> n < pts.len]

ResizeLoop(pts, h, n) ==
    [pts |-> [pts EXCEPT !.arr =
                [x \in DOMAIN pts.arr |->
                    IF x < n THEN Reslice(pts.arr[x], h) ELSE pts.arr[x]]],
     panic |-> n < pts.len]

Resize(sf, w, h) ==
    IF ~CanReslice(sf.pts, w) THEN [s |-> sf, panic |-> TRUE]
    ELSE [s |-> [sf EXCEPT !.pts =
                    ResizeLoop(Reslice(sf.pts, w), h,
                               ResizeSteps(Reslice(sf.pts, w), h)).pts],
          panic |-> ResizeSteps(Reslice(sf.pts, w), h) < w]

\* ----------------------------------------------------------------- Update
\* The reads of one step (x, y) of the normal loop, surface.go:118 and :131:
\* each panics when its index is outside the column it reads.
SlopeReadsOK(sf, sx, sy, x, y) ==
    LET xmax == IF x < sx - 1 THEN x + 1 ELSE x
        xmin == IF x > 0 THEN x - 1 ELSE x
        ymax == IF y < sy - 1 THEN y + 1 ELSE y
        ymin == IF y > 0 THEN y - 1 ELSE y
    IN /\ InRange(sf.pts.arr[xmax], y)
       /\ InRange(sf.pts.arr[xmin], y)
       /\ InRange(sf.pts.arr[x], ymax)
       /\ InRange(sf.pts.arr[x], ymin)

XSlopeNotDoubled(sf, sx, x, y) ==
    LET xmax == IF x < sx - 1 THEN x + 1 ELSE x
        xmin == IF x > 0 THEN x - 1 ELSE x
    IN sf.pts.arr[xmax].arr[y].Height - sf.pts.arr[xmin].arr[y].Height

\* surface.go:111-121: the slope along x at (x, y), doubled at the two
\* boundary columns.
XSlope(sf, sx, x, y) ==
    LET xmax == IF x < sx - 1 THEN x + 1 ELSE x
        xmin == IF x > 0 THEN x - 1 ELSE x
        xslope == sf.pts.arr[xmax].arr[y].Height - sf.pts.arr[xmin].arr[y].Height
    IN IF x = 0 \/ x = sx - 1 THEN xslope * 2 ELSE xslope

\* surface.go:124-134: the slope along y at (x, y), doubled at the two
\* boundary rows.
YSlope(sf, sy, x, y) ==
    LET ymax == IF y < sy - 1 THEN y + 1 ELSE y
        ymin == IF y > 0 THEN y - 1 ELSE y
        yslope == sf.pts.arr[x].arr[ymax].Height - sf.pts.arr[x].arr[ymin].Height
    IN IF y = 0 \/ y = sy - 1 THEN yslope * 2 ELSE yslope

\* surface.go:137-139: the unit length normal of the slopes.
UnitNormal(xslope, yslope, yScale) ==
    LET xzScale == float32(1)
        nx == FMul(-xslope, yScale)
        ny == 2 * xzScale
        nz == FMul(yslope, yScale)
        length == Sqrt(FMul(nx, nx) + FMul(ny, ny) + FMul(nz, nz))
    IN [x |-> FDiv(nx, length), y |-> FDiv(ny, length), z |-> FDiv(nz, length)]

NormalAt(sf, sx, sy, x, y) ==
    UnitNormal(XSlope(sf, sx, x, y), YSlope(sf, sy, x, y), sf.scale)

\* The normal loop, surface.go:107-141, visits (x, y) in the order x*sy + y and
\* stops at the first step whose reads panic: NormalSteps is the number of
\* steps it completes.
NormalSteps(sf, sx, sy) ==
    LET bad == {x * sy + y : <<x, y>> \in
                   {p \in (0 .. sx - 1) \X (0 .. sy - 1) :
                       ~SlopeReadsOK(sf, sx, sy, p[1], p[2])}}
    IN IF bad = {} THEN sx * sy
       ELSE CHOOSE i \in bad : \A j \in bad : i <= j

\* s.nms after the first n steps of the normal loop.
Normals(sf, sx, sy, n) ==
    [sf.nms EXCEPT !.arr =
        [x \in DOMAIN sf.nms.arr |->
            [sf.nms.arr[x] EXCEPT !.arr =
                [y \in DOMAIN sf.nms.arr[x].arr |->
                    IF x < sx /\ y < sy /\ x * sy + y < n
                    THEN NormalAt(sf, sx, sy, x, y)
                    ELSE sf.nms.arr[x].arr[y]]]]]

\* surface.go:165-189: the eight uv values of the quad at (x, y), after the
\* border is added to those on the texture's outside.
QuadUV(x, y, xoff, yoff, spread, textureRatio) ==
    LET width == FDiv(textureRatio, float32(spread))
        border == Unit \div 1000
        basex == FDiv(float32(GoRem(x + xoff, spread)), float32(spread))
        basey == float32(1) - FDiv(float32(GoRem(y + yoff, spread)), float32(spread))
                            - FDiv(float32(1), float32(spread))
        l == FMul(basex, textureRatio)
        r == FMul(basex, textureRatio) + width
        b == FMul(basey, textureRatio)
        t == FMul(basey, textureRatio) + width
        dl == IF l = 0 THEN border ELSE 0              \* uv0 == 0
        dr == IF r = textureRatio THEN border ELSE 0   \* uv2 == textureRatio
        db == IF b = 0 THEN border ELSE 0              \* uv5 == 0
        dt == IF t = textureRatio THEN border ELSE 0   \* uv1 == textureRatio
    IN [uv0 |-> l + dl, uv1 |-> t - dt, uv2 |-> r - dr, uv3 |-> t - dt,
        uv4 |-> l + dl, uv5 |-> b + db, uv6 |-> r - dr, uv7 |-> b + db]

\* surface.go:197: the two triangles of a quad whose first vertex is vc; the
\* sums are uint16 sums.
Faces(vc) ==
    <<vc, uint16(vc + 1), uint16(vc + 2), uint16(vc + 1), uint16(vc + 3), uint16(vc + 2)>>

\* surface.go:198: vc += 4, on a uint16.
NextVc3(vc) == uint16(vc + 3)
NextVc(vc) == uint16(vc + 4)

\* The three floats appended for one normal.
xyzOf(n) == <<n.x, n.y, n.z>>

\* A buffer ([]float32, []uint16) is kept as the runs of values appended to
\* it, grouped as the loop nest of Update appends them: one group per pass x
\* of the outer loop, in it one run per pass y of the inner loop.  The buffer's
\* values are the values of its runs, in that order.
RECURSIVE RunsCount(_, _, _)
RunsCount(runs, lo, hi) ==
    IF lo > hi THEN 0
    ELSE IF lo = hi THEN Len(runs[lo])
    ELSE RunsCount(runs, lo, (lo + hi) \div 2) + RunsCount(runs, (lo + hi) \div 2 + 1, hi)
RECURSIVE GroupsCount(_, _, _)
GroupsCount(buf, lo, hi) ==
    IF lo > hi THEN 0
    ELSE IF lo = hi THEN RunsCount(buf[lo], 1, Len(buf[lo]))
    ELSE GroupsCount(buf, lo, (lo + hi) \div 2) + GroupsCount(buf, (lo + hi) \div 2 + 1, hi)
\* len(buf): the number of values in the buffer.
Count(buf) == GroupsCount(buf, 1, Len(buf))

\* surface.go:155-204: one pass of the quad loop's body, for the quad at
\* (x, y) with the vertex counter at vc: the run it appends to each of the four
\* buffers, and the counter it leaves.
Quad(sf, norms, x, y, xoff, yoff, vc) ==
    LET hscale == sf.scale
        P(i, j) == sf.pts.arr[i].arr[j]
        N(i, j) == norms.arr[i].arr[j]
        uv == QuadUV(x, y, xoff, yoff, sf.spread, sf.tratio)
        tindex == float32(P(x, y).Tindex)
        blend == P(x, y).Blend
    IN [vb |-> <<float32(x), float32(y), FMul(P(x, y).Height, hscale),
                 float32(x + 1), float32(y), FMul(P(x + 1, y).Height, hscale),
                 float32(x), float32(y + 1), FMul(P(x, y + 1).Height, hscale),
                 float32(x + 1), float32(y + 1), FMul(P(x + 1, y + 1).Height, hscale)>>,
        tb |-> <<uv.uv0, uv.uv1, tindex, blend,
                 uv.uv2, uv.uv3, tindex, blend,
                 uv.uv4, uv.uv5, tindex, blend,
                 uv.uv6, uv.uv7, tindex, blend>>,
        fb |-> Faces(vc),
        vc |-> NextVc(vc),
        nb |-> xyzOf(N(x, y)) \o xyzOf(N(x + 1, y))
                 \o xyzOf(N(x, y + 1)) \o xyzOf(N(x + 1, y + 1))]

\* What passes leave when they follow the passes that left done: done's runs,
\* then theirs, and their vertex counter.
Then(done, rest) ==
    [vb |-> done.vb \o rest.vb, nb |-> done.nb \o rest.nb,
     tb |-> done.tb \o rest.tb, fb |-> done.fb \o rest.fb, vc |-> rest.vc]
\* One element (a run, or a group of runs) for each buffer.
One(r) == [vb |-> <<r.vb>>, nb |-> <<r.nb>>, tb |-> <<r.tb>>, fb |-> <<r.fb>>,
           vc |-> r.vc]
Nothing(vc) == [vb |-> <<>>, nb |-> <<>>, tb |-> <<>>, fb |-> <<>>, vc |-> vc]

\* surface.go:152-205: the passes y = lo .. hi-1 of the inner loop for one x,
\* started with the vertex counter at vc: the runs they append.  The passes
\* are taken in the loop's order, each started with the counter the one before
\* it left; the range is halved only to keep the evaluation shallow.
RECURSIVE QuadLoopY(_, _, _, _, _, _, _, _)
QuadLoopYFrom(done, sf, norms, x, mid, hi, xoff, yoff) ==
    Then(done, QuadLoopY(sf, norms, x, mid, hi, xoff, yoff, done.vc))
QuadLoopY(sf, norms, x, lo, hi, xoff, yoff, vc) ==
    IF lo >= hi THEN Nothing(vc)
    ELSE IF hi = lo + 1 THEN One(Quad(sf, norms, x, lo, xoff, yoff, vc))
    ELSE QuadLoopYFrom(QuadLoopY(sf, norms, x, lo, (lo + hi) \div 2, xoff, yoff, vc),
                       sf, norms, x, (lo + hi) \div 2, hi, xoff, yoff)

\* surface.go:151-206: the passes x = lo .. hi-1 of the outer loop, each the
\* inner loop over y = 0 .. sy-2: the groups of runs they append.
RECURSIVE QuadLoopX(_, _, _, _, _, _, _, _)
QuadLoopXFrom(done, sf, norms, sy, mid, hi, xoff, yoff) ==
    Then(done, QuadLoopX(sf, norms, sy, mid, hi, xoff, yoff, done.vc))
QuadLoopX(sf, norms, sy, lo, hi, xoff, yoff, vc) ==
    IF lo >= hi THEN Nothing(vc)
    ELSE IF hi = lo + 1 THEN One(QuadLoopY(sf, norms, lo, 0, sy - 1, xoff, yoff, vc))
    ELSE QuadLoopXFrom(QuadLoopX(sf, norms, sy, lo, (lo + hi) \div 2, xoff, yoff, vc),
                       sf, norms, sy, (lo + hi) \div 2, hi, xoff, yoff)

\* The number of passes of the quad loop's body: (sx-1)*(sy-1), none when sx
\* or sy is below 2.
QuadCount(sx, sy) == IF sx >= 2 /\ sy >= 2 THEN (sx - 1) * (sy - 1) ELSE 0

\* vb := s.vb[:0]: the buffer a scratch field gives to start from, which has
\* the field's first 0 values, so no group.
Truncated(sl) == [i \in 1 .. Reslice(sl, 0).len |-> <<>>]
\* append(sl, ...) writes into sl's backing array while its capacity suffices
\* and into a new array once it does not; SharesArray tells whether n values
\* appended to sl[:0] all went to sl's array.
SharesArray(sl, n) == Reslice(sl, 0).len + n <= Cap(sl)

SetMeshesSpan3(md, vb, nb, tb, fb) ==
    [vb |-> [span |-> 3, data |-> vb],
     nb |-> [span |-> 3, data |-> nb],
     tb |-> [span |-> 3, data |-> tb],
     fb |-> fb,
     loads |-> md.loads + 1]

\* m.InitMesh(lloc, span, ...).SetMeshData(lloc, data) and
\* m.InitFaces(...).SetFaces(data), surface.go:207-210.
SetMeshes(md, vb, nb, tb, fb) ==
    [vb |-> [span |-> 3, data |-> vb],
     nb |-> [span |-> 3, data |-> nb],
     tb |-> [span |-> 4, data |-> tb],
     fb |-> fb,
     loads |-> md.loads + 1]

\* What Update leaves in a scratch field: the field itself, since the buffer
\* built is never assigned back (there is no s.vb = vb).  Its backing array
\* would hold the values built had they fitted in it; a field of capacity 0
\* holds none.
Scratch(field, built) ==
    IF Cap(field) > 0 /\ SharesArray(field, Count(built))
    THEN [field EXCEPT !.arr = [i \in DOMAIN field.arr |-> 0]]
    ELSE field

\* surface.go:207-210: the buffers built are handed to the Model.
Deliver(sn, md, bf) ==
    [s |-> [sn EXCEPT !.vb = Scratch(sn.vb, bf.vb),
                      !.nb = Scratch(sn.nb, bf.nb),
                      !.tb = Scratch(sn.tb, bf.tb),
                      !.fb = Scratch(sn.fb, bf.fb)],
     m |-> SetMeshes(md, bf.vb, bf.nb, bf.tb, bf.fb),
     panic |-> FALSE]

\* surface.go:143-210, on the surface sn whose normals are computed: the
\* first quad panics on the integer x % 0 when spread is 0.
UpdateQuads(sn, md, xoff, yoff, sx, sy) ==
    IF sx >= 2 /\ sy >= 2 /\ sn.spread = 0
    THEN [s |-> sn, m |-> md, panic |-> TRUE]
    ELSE Deliver(sn, md,
            Then([vb |-> Truncated(sn.vb), nb |-> Truncated(sn.nb),
                  tb |-> Truncated(sn.tb), fb |-> Truncated(sn.fb),
                  vc |-> uint16(0)],
                 QuadLoopX(sn, sn.nms, sy, 0, sx - 1,
                           xoff, yoff, uint16(0))))

\* surface.go:104-141, given the number n of steps the normal loop completes:
\* a read outside a column panics, with the normals written so far kept.
UpdateNormals(sf, md, xoff, yoff, sx, sy, n) ==
    IF n < sx * sy
    THEN [s |-> [sf EXCEPT !.nms = Normals(sf, sx, sy, n)], m |-> md, panic |-> TRUE]
    ELSE UpdateQuads([sf EXCEPT !.nms = Normals(sf, sx, sy, n)], md, xoff, yoff, sx, sy)

\* surface.go:95-211.  len(s.pts[0]) panics on a grid with no column.
Update(sf, md, xoff, yoff) ==
    IF ~InRange(sf.pts, 0)
    THEN [s |-> sf, m |-> md, panic |-> TRUE]
    ELSE UpdateNormals(sf, md, xoff, yoff, sf.pts.len, sf.pts.arr[0].len,
                       NormalSteps(sf, sf.pts.len, sf.pts.arr[0].len))

\* ---------------------------------------------------------------- actions
\* A call is one step: the whole function runs, panic or not.
Called(op, args, panic) ==
    [op |-> op, args |-> args, panic |-> panic, w |-> Width(s), h |-> Height(s)]

DoNewSurface(sx, sy, spread, textureRatio, scale) ==
    /\ s = NoSurface
    /\ s' = IF newSurfacePanics(sx, sy) THEN NoSurface
            ELSE newSurface(sx, sy, spread, textureRatio, scale)
    /\ last' = [op |-> "NewSurface", args |-> <<sx, sy, spread, textureRatio, scale>>,
                panic |-> newSurfacePanics(sx, sy), w |-> 0, h |-> 0]
    /\ UNCHANGED <<m, nops>>

DoSetPoint(x, y, p) ==
    /\ s # NoSurface
    /\ nops < MaxOps
    /\ InRange(s.pts, x) /\ InRange(s.pts.arr[x], y)
    /\ s' = SetPt(s, x, y, p)
    /\ last' = Called("SetPoint", <<x, y>>, FALSE)
    /\ nops' = nops + 1
    /\ UNCHANGED m

Resized(r, w, h) ==
    /\ s' = r.s
    /\ last' = Called("Resize", <<w, h>>, r.panic)
DoResize(w, h) ==
    /\ s # NoSurface
    /\ nops < MaxOps
    /\ Resized(Resize(s, w, h), w, h)
    /\ nops' = nops + 1
    /\ UNCHANGED m

Updated(r, xoff, yoff) ==
    /\ s' = r.s
    /\ m' = r.m
    /\ last' = Called("Update", <<xoff, yoff>>, r.panic)
DoUpdate(xoff, yoff) ==
    /\ s # NoSurface
    /\ nops < MaxOps
    /\ Updated(Update(s, m, xoff, yoff), xoff, yoff)
    /\ nops' = nops + 1

\* ------------------------------------------------ the surface's life: Spec
\* A surface built with valid parameters, then written, resized and updated
\* in any order.
Init ==
    /\ \E sx \in 1 .. MaxDim, sy \in 1 .. MaxDim :
          s = newSurface(sx, sy, 1, Unit, Unit)
    /\ m = EmptyModel
    /\ last = NoCall
    /\ nops = 0

SetPoint == \E x \in 0 .. MaxDim - 1, y \in 0 .. MaxDim - 1 :
                DoSetPoint(x, y, [Height |-> Unit, Tindex |-> 1, Blend |-> Unit \div 2])
ResizeCall == \E w \in 0 .. MaxDim + 1, h \in 0 .. MaxDim + 1 : DoResize(w, h)
UpdateCall == \E xoff \in 0 .. 1 : DoUpdate(xoff, 0)

Next == SetPoint \/ ResizeCall \/ UpdateCall

Spec == Init /\ [][Next]_vars

\* ------------------------------------------------- construction: SpecNew
\* NewSurface called with any parameters, valid or not, then Update.
InitNew ==
    /\ s = NoSurface
    /\ m = EmptyModel
    /\ last = NoCall
    /\ nops = 0

NewSurfaceCall ==
    \E sx \in -1 .. 2, sy \in -1 .. 2, spread \in -1 .. 2,
       textureRatio \in {-Unit, 0, Unit} :
        DoNewSurface(sx, sy, spread, textureRatio, Unit)
UpdateNew == DoUpdate(0, 0)

NextNew == NewSurfaceCall \/ UpdateNew

SpecNew == InitNew /\ [][NextNew]_vars

\* -------------------------------------------- texture coordinates: SpecUV
\* Surfaces of every spread and ratio, updated at every patch offset.
Ratios == {Unit, Unit \div 2}
Offsets == (0 - MaxOff) .. MaxOff

InitUV ==
    /\ \E sx \in 2 .. MaxDim, sy \in 2 .. MaxDim,
          spread \in 1 .. MaxSpread, textureRatio \in Ratios :
          s = newSurface(sx, sy, spread, textureRatio, Unit)
    /\ m = EmptyModel
    /\ last = NoCall
    /\ nops = 0

UpdateUV == \E xoff \in Offsets, yoff \in Offsets : DoUpdate(xoff, yoff)

NextUV == UpdateUV

SpecUV == InitUV /\ [][NextUV]_vars

\* ------------------------------------------------------ slopes: SpecSlope
\* The terrain generator's writes of a height field that rises by a per step
\* along x (alongX) or along y.
LinearField(sf, a, alongX) ==
    [sf EXCEPT !.pts.arr =
        [x \in DOMAIN sf.pts.arr |->
            [sf.pts.arr[x] EXCEPT !.arr =
                [y \in DOMAIN sf.pts.arr[x].arr |->
                    [sf.pts.arr[x].arr[y] EXCEPT
                        !.Height = float32(a * (IF alongX THEN x ELSE y))]]]]]

InitSlope ==
    /\ \E sx \in 1 .. MaxDim + 1, sy \in 1 .. MaxDim + 1,
          a \in (0 - MaxSlope) .. MaxSlope, alongX \in BOOLEAN :
          /\ IF alongX THEN sx >= 3 ELSE sy >= 3
          /\ s = LinearField(newSurface(sx, sy, 1, Unit, Unit), a, alongX)
    /\ m = EmptyModel
    /\ last = NoCall
    /\ nops = 0

UpdateSlope == \E xoff \in 0 .. 1 : DoUpdate(xoff, 0)

NextSlope == UpdateSlope

SpecSlope == InitSlope /\ [][NextSlope]_vars

\* ------------------------------------------------------ capacity: SpecCap
\* A grid whose vertices outnumber the 16-bit indices, shrunk and updated.
InitCap ==
    /\ s = newSurface(CapWidth, CapHeight, 1, Unit, Unit)
    /\ m = EmptyModel
    /\ last = NoCall
    /\ nops = 0

ResizeCap == \E w \in {2, 3, CapWidth}, h \in {2, CapHeight} : DoResize(w, h)
UpdateCap == DoUpdate(0, 0)

NextCap == ResizeCap \/ UpdateCap

SpecCap == InitCap /\ [][NextCap]_vars

\* ================================================================== claims
Quads(w, h) == QuadCount(w, h)
\* The values of a delivered buffer, in the order they were appended.
RECURSIVE Concat(_, _, _)
Concat(seqs, lo, hi) ==
    IF lo > hi THEN <<>>
    ELSE IF lo = hi THEN seqs[lo]
    ELSE Concat(seqs, lo, (lo + hi) \div 2) \o Concat(seqs, (lo + hi) \div 2 + 1, hi)
Values(buf) == LET runs == Concat(buf, 1, Len(buf)) IN Concat(runs, 1, Len(runs))
\* The i-th vertex (from 0) of a delivered vertex buffer, and its x and y.
VertexXY(i) == <<Values(m.vb.data)[3 * i + 1], Values(m.vb.data)[3 * i + 2]>>

\* C1: one Update of a grid with sx >= 2 and sy >= 2 delivers 4*(sx-1)*(sy-1)
\* vertices of 3 floats, as many normals of 3 floats and texture attributes of
\* 4 floats, and 6*(sx-1)*(sy-1) indices, whatever was delivered before.
C1_UpdateCounts ==
    (last.op = "Update" /\ last.w >= 2 /\ last.h >= 2) =>
        /\ ~last.panic
        /\ m.vb.span = 3 /\ Count(m.vb.data) = 3 * 4 * Quads(last.w, last.h)
        /\ m.nb.span = 3 /\ Count(m.nb.data) = 3 * 4 * Quads(last.w, last.h)
        /\ m.tb.span = 4 /\ Count(m.tb.data) = 4 * 4 * Quads(last.w, last.h)
        /\ Count(m.fb) = 6 * Quads(last.w, last.h)
\* A second Update, of a 2x2 grid cut from a larger one.
C1_Witness ==
    /\ last.op = "Update" /\ ~last.panic
    /\ last.w = 2 /\ last.h = 2 /\ Cap(s.pts) = 3
    /\ m.loads = 2 /\ Count(m.fb) = 6

\* C2: an Update of a grid with more than 65536 vertices fails explicitly, and
\* no index buffer with indices wrapped modulo 2^16 is ever delivered: the
\* first index of the k-th quad delivered (the y-th of the x-th column of
\* quads) is 4k.
C2_CapacityChecked ==
    /\ (last.op = "Update" /\ 4 * Quads(last.w, last.h) > 65536) => last.panic
    /\ \A x \in 1 .. Len(m.fb) : \A y \in 1 .. Len(m.fb[x]) :
          m.fb[x][y][1] = 4 * ((x - 1) * Len(m.fb[x]) + (y - 1))

\* C3: a Resize(w, h) with w above the grid's width or h above its height is
\* rejected and leaves the grid's dimensions as they were (stated here for the
\* requests of at least one column and one row, on a grid with a column).
C3_GrowthRejected ==
    (/\ last.op = "Resize"
     /\ last.w >= 1 /\ last.h >= 0
     /\ last.args[1] >= 1 /\ last.args[2] >= 1
     /\ (last.args[1] > last.w \/ last.args[2] > last.h)) =>
        /\ last.panic
        /\ Width(s) = last.w
        /\ Height(s) = last.h

\* C4: a Resize(w, h) with w <= the grid's width and h <= its height leaves a
\* grid of exactly w columns of exactly h points, each retained point with the
\* height, texture index and blend it had.
C4_ShrinkKeepsPoints ==
    [][(/\ last'.op = "Resize"
        /\ nops' = nops + 1
        /\ 0 <= last'.args[1] /\ last'.args[1] <= Width(s)
        /\ 0 <= last'.args[2] /\ last'.args[2] <= Height(s)) =>
            /\ ~last'.panic
            /\ DOMAIN Pts(s') = 0 .. last'.args[1] - 1
            /\ \A x \in DOMAIN Pts(s') :
                  /\ DOMAIN Pts(s')[x] = 0 .. last'.args[2] - 1
                  /\ \A y \in DOMAIN Pts(s')[x] : Pts(s')[x][y] = Pts(s)[x][y]]_vars
\* A 3x3 grid with a written point, cut to 2x2 with the point retained.
C4_Witness ==
    /\ last.op = "Resize" /\ ~last.panic
    /\ last.w = 3 /\ last.h = 3 /\ last.args = <<2, 2>>
    /\ Width(s) = 2 /\ Height(s) = 2
    /\ Pts(s)[1][1].Height = Unit

\* C5: no surface is ever returned by a construction with spread <= 0,
\* atlasRatio <= 0, sx < 1 or sy < 1.
C5_InvalidRejected ==
    s # NoSurface =>
        /\ s.spread >= 1
        /\ s.tratio > 0
        /\ Cap(s.pts) >= 1
        /\ \A x \in DOMAIN s.pts.arr : Cap(s.pts.arr[x]) >= 1

\* C6: every u and v delivered lies in [0.001, atlasRatio - 0.001].
C6_UVInRange ==
    \A x \in 1 .. Len(m.tb.data) : \A y \in 1 .. Len(m.tb.data[x]) :
        \A i \in 1 .. Len(m.tb.data[x][y]) :
            (i % 4 = 1 \/ i % 4 = 2) =>
                /\ Unit \div 1000 <= m.tb.data[x][y][i]
                /\ m.tb.data[x][y][i] <= s.tratio - Unit \div 1000

\* C7: on an unchanged grid, two Updates whose offsets differ by multiples of
\* spread deliver the same texture attributes.
C7_TileContinuity ==
    [][(/\ last.op = "Update" /\ ~last.panic
        /\ last'.op = "Update" /\ ~last'.panic
        /\ nops' = nops + 1
        /\ Pts(s') = Pts(s)
        /\ (last'.args[1] - last.args[1]) % s.spread = 0
        /\ (last'.args[2] - last.args[2]) % s.spread = 0) =>
            m'.tb = m.tb]_vars

\* C8: on a height field that rises linearly along x only (sx >= 3), the
\* x-slope and the normal Update computes at the boundary columns equal those
\* it computes at the interior columns; and the same along y.
LinearAlongX(sf) ==
    \E a \in (0 - MaxSlope) .. MaxSlope :
        \A x \in DOMAIN Pts(sf) : \A y \in DOMAIN Pts(sf)[x] :
            Pts(sf)[x][y].Height = float32(a * x)
LinearAlongY(sf) ==
    \E a \in (0 - MaxSlope) .. MaxSlope :
        \A x \in DOMAIN Pts(sf) : \A y \in DOMAIN Pts(sf)[x] :
            Pts(sf)[x][y].Height = float32(a * y)
C8_BoundarySlopeDoubling ==
    (last.op = "Update" /\ ~last.panic /\ last.h >= 1) =>
        /\ (LinearAlongX(s) /\ Width(s) >= 3) =>
              \A x \in {0, Width(s) - 1} : \A y \in 0 .. Height(s) - 1 :
                  /\ XSlope(s, Width(s), x, y) = XSlope(s, Width(s), 1, y)
                  /\ s.nms.arr[x].arr[y] = s.nms.arr[1].arr[y]
        /\ (LinearAlongY(s) /\ Height(s) >= 3) =>
              \A x \in 0 .. Width(s) - 1 : \A y \in {0, Height(s) - 1} :
                  /\ YSlope(s, Height(s), x, y) = YSlope(s, Height(s), x, 1)
                  /\ s.nms.arr[x].arr[y] = s.nms.arr[x].arr[1]
\* An updated field of slope 1 along x: its normals lean against x.
C8_Witness ==
    /\ last.op = "Update" /\ ~last.panic
    /\ Width(s) >= 3 /\ Height(s) >= 1
    /\ LinearAlongX(s)
    /\ Pts(s)[1][0].Height = float32(1)
    /\ s.nms.arr[0].arr[0].x < 0

\* C9: after an Update the surface keeps the four buffers it built as its
\* scratch storage: each scratch field has the capacity of what was built.
C9_ScratchKept ==
    (last.op = "Update" /\ ~last.panic) =>
        /\ Cap(s.vb) >= Count(m.vb.data)
        /\ Cap(s.nb) >= Count(m.nb.data)
        /\ Cap(s.tb) >= Count(m.tb.data)
        /\ Cap(s.fb) >= Count(m.fb)

\* C10: the k-th quad visited (x outer, y inner) occupies the vertices
\* 4k .. 4k+3, at (x,y), (x+1,y), (x,y+1), (x+1,y+1), and contributes the
\* indices 4k, 4k+1, 4k+2, 4k+1, 4k+3, 4k+2; every index delivered is below
\* the number of vertices delivered.
C10_QuadLayout ==
    (last.op = "Update" /\ ~last.panic /\ last.w >= 1 /\ last.h >= 0) =>
        /\ \A k \in 0 .. Quads(last.w, last.h) - 1 :
              LET x == k \div (last.h - 1)
                  y == k % (last.h - 1)
              IN /\ VertexXY(4 * k) = <<float32(x), float32(y)>>
                 /\ VertexXY(4 * k + 1) = <<float32(x + 1), float32(y)>>
                 /\ VertexXY(4 * k + 2) = <<float32(x), float32(y + 1)>>
                 /\ VertexXY(4 * k + 3) = <<float32(x + 1), float32(y + 1)>>
                 /\ SubSeq(Values(m.fb), 6 * k + 1, 6 * k + 6) =
                        <<4 * k, 4 * k + 1, 4 * k + 2, 4 * k + 1, 4 * k + 3, 4 * k + 2>>
        /\ \A i \in 1 .. Count(m.fb) : Values(m.fb)[i] < Count(m.vb.data) \div 3
\* An Update of a 3x3 grid: four quads, the last at (1,1) on vertices 12..15.
C10_Witness ==
    /\ last.op = "Update" /\ ~last.panic
    /\ last.w = 3 /\ last.h = 3
    /\ Count(m.fb) = 24 /\ Values(m.fb)[24] = 14

====
